---- MODULE Spec2Model ----
(***************************************************************************)
(* A model of android.py: the bot that fetches merged AOSP changes and     *)
(* Android blog entries, filters out the ones recorded in state.json, asks *)
(* Gemini for post ideas (with a deterministic fallback), records the new  *)
(* identifiers in state.json and sends one Telegram message.               *)
(*                                                                         *)
(* Python values are tagged records [t, v].  A Python str is a sequence of *)
(* pieces (TLA+ strings); text that the code inspects character by         *)
(* character (the AI reply) has one character per piece.                   *)
(***************************************************************************)
EXTENDS Integers, Sequences, FiniteSets, TLC

VARIABLES
    file,           \* content of state.json
    key,            \* GEMINI_API_KEY is set (truthy)
    oracle,         \* what the AI service may do when it is called
    aosp,           \* change numbers the review server may return
    blog,           \* number of entries of the blog feed, newest first
    pc,             \* per invocation: position in main()
    changes,        \* per invocation: main's local `changes`
    blog_posts,     \* per invocation: main's local `blog_posts`
    state,          \* per invocation: main's local `state`
    fresh_changes,  \* per invocation: main's local `fresh_changes`
    fresh_blog,     \* per invocation: main's local `fresh_blog`
    ai,             \* per invocation: what the AI step did in generate_posts
    posts,          \* per invocation: main's local `posts`
    sent,           \* per invocation: messages delivered by bot.send_message
    calls,          \* per invocation: calls made so far, by callee
    fileAtStart,    \* per invocation: content of state.json when the run began
    written,        \* per invocation: identifiers the run wrote to state.json
    evicted,        \* identifiers once in state.json that save_state's cap dropped
    prev,           \* the previous run of main(): outcome, inputs, identifiers added
    error,          \* per invocation: the unhandled exception that ended the run
    runsLeft        \* further runs the scheduler will start

vars == <<file, key, oracle, aosp, blog, pc, changes, blog_posts, state, fresh_changes,
          fresh_blog, ai, posts, sent, calls, fileAtStart, written, 
          evicted, prev, error, runsLeft>>

(***************************************************************************)
(* Program constants.                                                      *)
(***************************************************************************)
Cap == 500
FallbackLimit == 5
FetchLimit == 10

(***************************************************************************)
(* Bounds of the model.                                                    *)
(***************************************************************************)
MaxNewChanges == 1     \* changes newer than the Seen State, sequential runs
MaxBlog == 1           \* blog entries, sequential runs
MaxRuns == 2           \* runs of main(), one after the other
MaxConcChanges == 2    \* changes, overlapping invocations
MaxGenChanges == 3     \* changes, the single run with every AI outcome
MaxGenBlog == 3        \* blog entries, the single run with every AI outcome

Procs == {1, 2}

Min(a, b) == IF a < b THEN a ELSE b
Max(a, b) == IF a > b THEN a ELSE b

(***************************************************************************)
(* Python values.                                                          *)
(***************************************************************************)
PyNone == [t |-> "none", v |-> <<>>]
PyStr(s) == [t |-> "str", v |-> s]
PyInt(n) == [t |-> "int", v |-> n]
PyBool(b) == [t |-> "bool", v |-> b]
PyList(l) == [t |-> "list", v |-> l]
PyDict(members) == [t |-> "dict", v |-> members]

\* bool(x), as `posts if posts else ...` and `if not posts` evaluate it
Truthy(x) ==
    CASE x.t = "none" -> FALSE
      [] x.t = "int" -> x.v # 0
      [] x.t = "bool" -> x.v
      [] OTHER -> Len(x.v) > 0

(***************************************************************************)
(* str methods, on sequences of characters.                                *)
(***************************************************************************)
NL == "\n"
TAB == "\t"
Bullet == "U+2022"
Whitespace == {" ", NL, TAB}
Decoration == {"-", Bullet, " "}

RECURSIVE lstrip(_, _)
lstrip(s, cs) ==
    IF s # <<>> /\ Head(s) \in cs THEN lstrip(Tail(s), cs) ELSE s

RECURSIVE rstrip(_, _)
rstrip(s, cs) ==
    IF s # <<>> /\ s[Len(s)] \in cs THEN rstrip(SubSeq(s, 1, Len(s) - 1), cs) ELSE s

\* s.strip(cs): characters of cs removed from both ends
strip(s, cs) == rstrip(lstrip(s, cs), cs)

\* s.find(c): 0-based index of the first c, or -1
find(s, c) ==
    IF \E i \in 1..Len(s) : s[i] = c
    THEN (CHOOSE i \in 1..Len(s) : s[i] = c /\ \A j \in 1..(i - 1) : s[j] # c) - 1
    ELSE -1

\* s.rfind(c): 0-based index of the last c, or -1
rfind(s, c) ==
    IF \E i \in 1..Len(s) : s[i] = c
    THEN (CHOOSE i \in 1..Len(s) : s[i] = c /\ \A j \in (i + 1)..Len(s) : s[j] # c) - 1
    ELSE -1

\* s[a:b], with Python's reading of negative and out-of-range indices
PySlice(s, a, b) ==
    LET n == Len(s)
        lo == IF a < 0 THEN Max(a + n, 0) ELSE Min(a, n)
        hi == IF b < 0 THEN Max(b + n, 0) ELSE Min(b, n)
    IN  SubSeq(s, lo + 1, hi)

\* s[-k:], the last k elements
LastN(s, k) == PySlice(s, -k, Len(s))

RECURSIVE split(_, _)
split(s, sep) ==
    LET i == find(s, sep)
    IN  IF i < 0 THEN <<s>>
        ELSE <<SubSeq(s, 1, i)>> \o split(SubSeq(s, i + 2, Len(s)), sep)

DigitChars == <<"0", "1", "2", "3", "4", "5", "6", "7", "8", "9">>

\* str(n) for n >= 0, as an f-string formats a number
RECURSIVE Str(_)
Str(n) ==
    IF n < 10 THEN <<DigitChars[n + 1]>>
    ELSE Str(n \div 10) \o <<DigitChars[(n % 10) + 1]>>

(***************************************************************************)
(* json.loads, for the JSON the model's texts can hold: objects, arrays,   *)
(* strings without escapes, integers, true, false, null.                   *)
(***************************************************************************)
Fail == [ok |-> FALSE, val |-> PyNone, next |-> 0]
Parsed(val, next) == [ok |-> TRUE, val |-> val, next |-> next]

DigitValue(c) == CHOOSE d \in 0..9 : DigitChars[d + 1] = c
IsDigit(c) == \E d \in 0..9 : DigitChars[d + 1] = c

RECURSIVE SkipWs(_, _)
SkipWs(s, i) ==
    IF i <= Len(s) /\ s[i] \in Whitespace THEN SkipWs(s, i + 1) ELSE i

StartsWith(s, i, w) ==
    /\ i + Len(w) - 1 <= Len(s)
    /\ SubSeq(s, i, i + Len(w) - 1) = w

RECURSIVE ParseString(_, _, _)
ParseString(s, i, acc) ==
    IF i > Len(s) \/ s[i] \in {NL, TAB} THEN Fail
    ELSE IF s[i] = "\"" THEN Parsed(PyStr(acc), i + 1)
    ELSE ParseString(s, i + 1, Append(acc, s[i]))

RECURSIVE ParseDigits(_, _, _)
ParseDigits(s, i, acc) ==
    IF i <= Len(s) /\ IsDigit(s[i])
    THEN ParseDigits(s, i + 1, 10 * acc + DigitValue(s[i]))
    ELSE Parsed(PyInt(acc), i)

ParseNumber(s, i) ==
    LET neg == s[i] = "-"
        j == IF neg THEN i + 1 ELSE i
    IN  IF j > Len(s) \/ ~IsDigit(s[j]) THEN Fail
        ELSE LET r == IF s[j] = "0" THEN Parsed(PyInt(0), j + 1)
                      ELSE ParseDigits(s, j, 0)
             IN  IF neg THEN Parsed(PyInt(0 - r.val.v), r.next) ELSE r

RECURSIVE ParseValue(_, _)
RECURSIVE ParseItems(_, _, _)
RECURSIVE ParseMembers(_, _, _)

\* the items of an array, after "[" or ","; acc holds the items read
ParseItems(s, i, acc) ==
    LET r == ParseValue(s, i)
        j == SkipWs(s, r.next)
    IN  IF ~r.ok \/ j > Len(s) THEN Fail
        ELSE IF s[j] = "]" THEN Parsed(PyList(Append(acc, r.val)), j + 1)
        ELSE IF s[j] = "," THEN ParseItems(s, j + 1, Append(acc, r.val))
        ELSE Fail

\* the members of an object, after "{" or ","; acc holds the members read
ParseMembers(s, i, acc) ==
    LET k == SkipWs(s, i)
    IN  IF k > Len(s) \/ s[k] # "\"" THEN Fail
        ELSE LET name == ParseString(s, k + 1, <<>>)
                 c == SkipWs(s, name.next)
             IN  IF ~name.ok \/ c > Len(s) \/ s[c] # ":" THEN Fail
                 ELSE LET r == ParseValue(s, c + 1)
                          j == SkipWs(s, r.next)
                          got == Append(acc, <<name.val.v, r.val>>)
                      IN  IF ~r.ok \/ j > Len(s) THEN Fail
                          ELSE IF s[j] = "}" THEN Parsed(PyDict(got), j + 1)
                          ELSE IF s[j] = "," THEN ParseMembers(s, j + 1, got)
                          ELSE Fail

ParseValue(s, i) ==
    LET j == SkipWs(s, i)
    IN  IF j > Len(s) THEN Fail
        ELSE IF s[j] = "{" THEN
            LET k == SkipWs(s, j + 1)
            IN  IF k <= Len(s) /\ s[k] = "}" THEN Parsed(PyDict(<<>>), k + 1)
                ELSE ParseMembers(s, j + 1, <<>>)
        ELSE IF s[j] = "[" THEN
            LET k == SkipWs(s, j + 1)
            IN  IF k <= Len(s) /\ s[k] = "]" THEN Parsed(PyList(<<>>), k + 1)
                ELSE ParseItems(s, j + 1, <<>>)
        ELSE IF s[j] = "\"" THEN ParseString(s, j + 1, <<>>)
        ELSE IF s[j] = "-" \/ IsDigit(s[j]) THEN ParseNumber(s, j)
        ELSE IF StartsWith(s, j, <<"n", "u", "l", "l">>) THEN Parsed(PyNone, j + 4)
        ELSE IF StartsWith(s, j, <<"t", "r", "u", "e">>) THEN Parsed(PyBool(TRUE), j + 4)
        ELSE IF StartsWith(s, j, <<"f", "a", "l", "s", "e">>) THEN Parsed(PyBool(FALSE), j + 5)
        ELSE Fail

\* json.loads(s): ok is FALSE where it raises
json_loads(s) ==
    LET r == ParseValue(s, 1)
    IN  IF r.ok /\ SkipWs(s, r.next) > Len(s) THEN r ELSE Fail

\* d.get(name, default) on a decoded object; a repeated name keeps its last value
DictGet(d, name, default) ==
    IF \E i \in 1..Len(d.v) : d.v[i][1] = name
    THEN LET i == CHOOSE i \in 1..Len(d.v) :
                      /\ d.v[i][1] = name
                      /\ \A j \in (i + 1)..Len(d.v) : d.v[j][1] # name
         IN  d.v[i][2]
    ELSE default

(***************************************************************************)
(* Records of the two feeds, and their identifiers (main, lines 154-158).  *)
(***************************************************************************)
ReviewUrl == "https://android-review.googlesource.com/c/"
BlogUrl == "https://android-developers.googleblog.com/"

\* a change as the review server returns it
ChangeRecord(n) == [number |-> n, subject |-> <<"Fix ">> \o Str(n)]
\* an entry of the blog feed
BlogEntry(k) == [title |-> <<"Post ">> \o Str(k), link |-> <<BlogUrl>> \o Str(k)]

change_id(c) == <<"change:">> \o Str(c.number)
blog_id(e) == <<"blog:">> \o e.link

Range(s) == {s[i] : i \in 1..Len(s)}
InSeq(x, s) == \E i \in 1..Len(s) : s[i] = x

RECURSIVE DescSeq(_)
DescSeq(S) ==
    IF S = {} THEN <<>>
    ELSE LET m == CHOOSE x \in S : \A y \in S : y <= x
         IN  <<m>> \o DescSeq(S \ {m})

\* what the review server answers to ?q=status:merged&n=limit: at most limit
\* of its changes, newest first
ChangeFeeds(limit) ==
    {[i \in 1..Cardinality(S) |-> ChangeRecord(DescSeq(S)[i])] :
        S \in {T \in SUBSET aosp : Cardinality(T) <= limit}}

\* feed.entries of the blog feed when it holds its newest j entries
FeedEntries(j) == [i \in 1..j |-> BlogEntry(j + 1 - i)]

fetch_android_blog(entries, limit) == PySlice(entries, 0, limit)

(***************************************************************************)
(* state.json and the State Store (lines 16-29).                           *)
(***************************************************************************)
Absent == [kind |-> "absent", seen_ids |-> <<>>]         \* no such file
Garbage == [kind |-> "garbage", seen_ids |-> <<>>]       \* not JSON
JsonArray == [kind |-> "array", seen_ids |-> <<>>]       \* JSON, not an object
DictNoKey == [kind |-> "dict_nokey", seen_ids |-> <<>>]  \* {}
DictNull == [kind |-> "dict_null", seen_ids |-> <<>>]    \* {"seen_ids": null}
Dict(l) == [kind |-> "dict", seen_ids |-> l]             \* {"seen_ids": [...]}

load_state(f) ==
    IF f.kind \in {"absent", "garbage"} THEN Dict(<<>>) ELSE f

\* state.get("seen_ids", []) on a dict
SeenList(st) == IF st.kind = "dict" THEN st.seen_ids ELSE <<>>

\* line 152 raises: AttributeError on a non-dict, TypeError on set(None)
SeenRaises(st) == st.kind \in {"array", "dict_null"}

save_state_first(st) == Dict(PySlice(SeenList(st), 0, Cap))
save_state_uncapped(st) == Dict(SeenList(st))
\* the dict save_state writes (and leaves in `state`)
save_state(st) == Dict(LastN(SeenList(st), Cap))

(***************************************************************************)
(* The Seen-Set Filter (lines 152-163).                                    *)
(***************************************************************************)
FreshChangesNoPrefix(cs, seen) == SelectSeq(cs, LAMBDA c : Str(c.number) \notin seen)
FreshChanges(cs, seen) == SelectSeq(cs, LAMBDA c : change_id(c) \notin seen)
FreshBlogUnfiltered(es, seen) == es
FreshBlog(es, seen) == SelectSeq(es, LAMBDA e : blog_id(e) \notin seen)

NothingFresh(fc, fb) == fc = <<>> /\ fb = <<>>

used_ids(fc, fb) ==
    [i \in 1..Len(fc) |-> change_id(fc[i])] \o [i \in 1..Len(fb) |-> blog_id(fb[i])]

(***************************************************************************)
(* The Draft Generator (lines 92-128).                                     *)
(***************************************************************************)
ChangeDraft(c) ==
    PyStr(<<"AOSP change: ">> \o c.subject \o <<" ", ReviewUrl>> \o Str(c.number))
BlogDraft(e) == PyStr(<<"Android blog: ">> \o e.title \o <<" ">> \o e.link)

basic_fallback_posts(cs, es, limit) ==
    PyList(PySlice([i \in 1..Len(cs) |-> ChangeDraft(cs[i])]
                     \o [i \in 1..Len(es) |-> BlogDraft(es[i])], 0, limit))

\* lines 121-122: the line-based heuristic
LinePosts(text) ==
    LET lines == split(text, NL)
        kept == SelectSeq(lines, LAMBDA line : strip(line, Whitespace) # <<>>)
    IN  PyList([i \in 1..Len(kept) |->
                   PyStr(strip(strip(kept[i], Decoration), Whitespace))])

PostsKey == <<"p", "o", "s", "t", "s">>

\* lines 116-118: the text between the first "{" and the last "}", decoded
Decoded(text) ==
    json_loads(PySlice(text, find(text, "{"), rfind(text, "}") + 1))

\* lines 115-122: structured decoding, else the heuristic
ParsePosts(text) ==
    LET r == Decoded(text)
    IN  IF r.ok /\ r.val.t = "dict" THEN DictGet(r.val, PostsKey, PyList(<<>>))
        ELSE LinePosts(text)

\* What the AI step does: init_gemini raises, generate_content raises,
\* resp.text raises, or resp.text is a text.
Raised(step) == [step |-> step, text |-> <<>>]
Reply(text) == [step |-> "text", text |-> text]
NoCall == [step |-> "none", text |-> <<>>]

generate_posts(cs, es, hasKey, out) ==
    IF ~hasKey THEN basic_fallback_posts(cs, es, FallbackLimit)
    ELSE IF out.step # "text" THEN basic_fallback_posts(cs, es, FallbackLimit)
    ELSE LET p == ParsePosts(out.text)
         IN  IF Truthy(p) THEN p ELSE basic_fallback_posts(cs, es, FallbackLimit)

(***************************************************************************)
(* The Notifier (lines 132-145).                                           *)
(***************************************************************************)
\* what `enumerate(posts)` yields; int and bool are not iterable
Iterable(p) == p.t \in {"list", "str", "dict"}
Items(p) ==
    IF p.t = "list" THEN p.v
    ELSE IF p.t = "str" THEN [i \in 1..Len(p.v) |-> PyStr(<<p.v[i]>>)]
    ELSE [i \in 1..Len(p.v) |-> PyStr(p.v[i][1])]

NoTopics == [header |-> "No new Android/AOSP topics.", body |-> <<>>, footer |-> ""]

\* the text handed to bot.send_message: header, numbered drafts, footer
MessageOf(p) ==
    IF ~Truthy(p) THEN NoTopics
    ELSE [header |-> "Android/AOSP updates:",
          body |-> [i \in 1..Len(Items(p)) |-> [n |-> i, p |-> Items(p)[i]]],
          footer |-> "(Ready to post!)"]

NothingNewPosts == PyList(<<PyStr(<<"No new items. Everything already processed.">>)>>)

(***************************************************************************)
(* What the AI step may do (resp.text, one character per piece).           *)
(***************************************************************************)
Q == "\""
QuotedPosts == <<Q>> \o PostsKey \o <<Q>>

ReplyJson ==        \* n {"posts": ["a", "b"]} t
    <<"n", " ", "{">> \o QuotedPosts
        \o <<":", " ", "[", Q, "a", Q, ",", " ", Q, "b", Q, "]", "}", " ", "t">>
ReplyEmptyList == <<"{">> \o QuotedPosts \o <<":", "[", "]", "}">>
ReplyInt == <<"{">> \o QuotedPosts \o <<":", "5", "}">>
ReplyStr == <<"{">> \o QuotedPosts \o <<":", Q, "a", "b", Q, "}">>
ReplyNull == <<"{">> \o QuotedPosts \o <<":", "n", "u", "l", "l", "}">>
ReplyNoKey == <<"{", "}">>
ReplyOtherKey == <<"{", Q, "a", Q, ":", "[", Q, "b", Q, "]", "}">>
ReplyTwoObjects == <<"{", "}", " ", "{", "}">>
ReplyOpenBrace == <<"{", "a">>
ReplyBullets == <<"-", " ", "a", NL, "-", " ", "b">>
ReplyOnlyDash == <<"-", NL, "-", " ", "a">>
ReplyTrailingDash == <<"-", " ", "a", " ", "-">>
ReplyBulletChar == <<Bullet, " ", "a", NL, NL, " ", NL, "b", " ">>
ReplyInnerDash == <<"a", "-", "b">>
ReplyEmpty == <<>>
ReplyBlank == <<" ", NL, " ">>

Replies ==
    {ReplyJson, ReplyEmptyList, ReplyInt, ReplyStr, ReplyNull, ReplyNoKey,
     ReplyOtherKey, ReplyTwoObjects, ReplyOpenBrace, ReplyBullets, ReplyOnlyDash,
     ReplyTrailingDash, ReplyBulletChar, ReplyInnerDash, ReplyEmpty, ReplyBlank}

AIOutcomes ==
    {Raised("init_gemini"), Raised("generate_content"), Raised("resp.text")}
        \cup {Reply(text) : text \in Replies}

\* the AI replies that main() meets in the sequential and the overlapping runs
MainOutcomes == {Raised("generate_content"), Reply(ReplyJson), Reply(ReplyInt)}

(***************************************************************************)
(* The initial states.                                                     *)
(***************************************************************************)
\* state.json after the runs that processed changes 1..n
SeenChanges(n) == [i \in 1..n |-> change_id(ChangeRecord(i))]

NoCalls == [load |-> 0, gen |-> 0, save |-> 0, send |-> 0]
NoPrev == [ok |-> FALSE, changes |-> <<>>, blog_posts |-> <<>>, written |-> {}]

Locals ==
    /\ changes = [p \in Procs |-> <<>>]
    /\ blog_posts = [p \in Procs |-> <<>>]
    /\ state = [p \in Procs |-> Dict(<<>>)]
    /\ fresh_changes = [p \in Procs |-> <<>>]
    /\ fresh_blog = [p \in Procs |-> <<>>]
    /\ ai = [p \in Procs |-> NoCall]
    /\ posts = [p \in Procs |-> PyNone]
    /\ sent = [p \in Procs |-> <<>>]
    /\ calls = [p \in Procs |-> NoCalls]
    /\ written = [p \in Procs |-> {}]
    /\ error = [p \in Procs |-> ""]
    /\ fileAtStart = [p \in Procs |-> file]
    /\ evicted = {}
    /\ prev = NoPrev

\* one invocation at a time, started again by the scheduler
Init ==
    /\ file \in {Absent, Garbage, JsonArray, DictNoKey, DictNull,
                 Dict(SeenChanges(Cap))}
    /\ key \in BOOLEAN
    /\ oracle = MainOutcomes
    /\ aosp = {1} \cup ((Cap + 1)..(Cap + MaxNewChanges))
    /\ blog = MaxBlog
    /\ pc = [p \in Procs |-> IF p = 1 THEN "start" ELSE "idle"]
    /\ runsLeft = MaxRuns - 1
    /\ Locals

\* two invocations started together
InitConc ==
    /\ file \in {Absent, Dict(SeenChanges(Cap))}
    /\ key \in BOOLEAN
    /\ oracle = MainOutcomes
    /\ aosp = (Cap + 1)..(Cap + MaxConcChanges)
    /\ blog = 0
    /\ pc = [p \in Procs |-> "start"]
    /\ runsLeft = 0
    /\ Locals

(***************************************************************************)
(* main (lines 147-176), one action per step between two external calls.   *)
(***************************************************************************)
Called(p, what) == [calls EXCEPT ![p][what] = @ + 1]

\* lines 148-149: both fetches answer
Fetch(p) ==
    /\ pc[p] = "start"
    /\ \E cs \in ChangeFeeds(FetchLimit), j \in 0..blog :
          /\ changes' = [changes EXCEPT ![p] = cs]
          /\ blog_posts' = [blog_posts EXCEPT
                               ![p] = fetch_android_blog(FeedEntries(j), FetchLimit)]
    /\ fileAtStart' = [fileAtStart EXCEPT ![p] = file]
    /\ pc' = [pc EXCEPT ![p] = "fetched"]
    /\ UNCHANGED <<file, key, oracle, aosp, blog, state, fresh_changes, fresh_blog, ai, posts,
                   sent, calls, written, evicted, prev, error, runsLeft>>

\* lines 148-149: a fetch raises, which nothing catches
FetchFails(p) ==
    /\ pc[p] = "start"
    /\ fileAtStart' = [fileAtStart EXCEPT ![p] = file]
    /\ pc' = [pc EXCEPT ![p] = "aborted"]
    /\ error' = [error EXCEPT ![p] = "fetch"]
    /\ UNCHANGED <<file, key, oracle, aosp, blog, changes, blog_posts, state, fresh_changes,
                   fresh_blog, ai, posts, sent, calls, written, evicted,
                   prev, runsLeft>>

\* lines 151-161: load_state, the seen set, the two filters
Load(p) ==
    /\ pc[p] = "fetched"
    /\ LET st == load_state(file)
           seen == Range(SeenList(st))
       IN  /\ state' = [state EXCEPT ![p] = st]
           /\ IF SeenRaises(st)
              THEN /\ pc' = [pc EXCEPT ![p] = "aborted"]
                   /\ error' = [error EXCEPT ![p] = "state"]
                   /\ UNCHANGED <<fresh_changes, fresh_blog>>
              ELSE /\ pc' = [pc EXCEPT ![p] = "loaded"]
                   /\ fresh_changes' = [fresh_changes EXCEPT
                                           ![p] = FreshChanges(changes[p], seen)]
                   /\ fresh_blog' = [fresh_blog EXCEPT
                                        ![p] = FreshBlog(blog_posts[p], seen)]
                   /\ UNCHANGED error
    /\ calls' = Called(p, "load")
    /\ UNCHANGED <<file, key, oracle, aosp, blog, changes, blog_posts, ai, posts, sent,
                   fileAtStart, written, evicted, prev, runsLeft>>

\* lines 163-165: nothing fresh, one message and return
NothingNew(p) ==
    /\ pc[p] = "loaded"
    /\ NothingFresh(fresh_changes[p], fresh_blog[p])
    /\ \E delivered \in BOOLEAN :
          IF delivered
          THEN /\ sent' = [sent EXCEPT ![p] = Append(@, MessageOf(NothingNewPosts))]
               /\ pc' = [pc EXCEPT ![p] = "done"]
               /\ UNCHANGED error
          ELSE /\ pc' = [pc EXCEPT ![p] = "aborted"]
               /\ error' = [error EXCEPT ![p] = "send"]
               /\ UNCHANGED sent
    /\ calls' = Called(p, "send")
    /\ UNCHANGED <<file, key, oracle, aosp, blog, changes, blog_posts, state, fresh_changes,
                   fresh_blog, ai, posts, fileAtStart, written, evicted,
                   prev, runsLeft>>

\* line 167: generate_posts
Generate(p) ==
    /\ pc[p] = "loaded"
    /\ ~NothingFresh(fresh_changes[p], fresh_blog[p])
    /\ \E out \in oracle :
          /\ ai' = [ai EXCEPT ![p] = IF key THEN out ELSE NoCall]
          /\ posts' = [posts EXCEPT
                          ![p] = generate_posts(fresh_changes[p], fresh_blog[p], key, out)]
    /\ calls' = Called(p, "gen")
    /\ pc' = [pc EXCEPT ![p] = "generated"]
    /\ UNCHANGED <<file, key, oracle, aosp, blog, changes, blog_posts, state, fresh_changes,
                   fresh_blog, sent, fileAtStart, written, evicted, prev,
                   error, runsLeft>>

\* lines 170-174: the used identifiers are appended and the state is saved
Save(p) ==
    /\ pc[p] = "generated"
    /\ LET used == used_ids(fresh_changes[p], fresh_blog[p])
           all == SeenList(state[p]) \o used
           saved == save_state(Dict(all))
           dropped == Range(PySlice(all, 0, Len(all) - Len(saved.seen_ids)))
       IN  /\ file' = saved
           /\ state' = [state EXCEPT ![p] = saved]
           /\ written' = [written EXCEPT
                              ![p] = {x \in Range(used) : InSeq(x, saved.seen_ids)}]
           /\ evicted' = {x \in evicted \cup (dropped \ Range(used)) :
                              ~InSeq(x, saved.seen_ids)}
    /\ calls' = Called(p, "save")
    /\ pc' = [pc EXCEPT ![p] = "saved"]
    /\ UNCHANGED <<key, oracle, aosp, blog, changes, blog_posts, fresh_changes, fresh_blog,
                   ai, posts, sent, fileAtStart, prev, error, runsLeft>>

\* line 176: send_posts_to_telegram(posts)
Send(p) ==
    /\ pc[p] = "saved"
    /\ \E delivered \in BOOLEAN :
          IF Truthy(posts[p]) /\ ~Iterable(posts[p])
          THEN /\ pc' = [pc EXCEPT ![p] = "aborted"]
               /\ error' = [error EXCEPT ![p] = "posts"]
               /\ UNCHANGED sent
          ELSE IF delivered
          THEN /\ sent' = [sent EXCEPT ![p] = Append(@, MessageOf(posts[p]))]
               /\ pc' = [pc EXCEPT ![p] = "done"]
               /\ UNCHANGED error
          ELSE /\ pc' = [pc EXCEPT ![p] = "aborted"]
               /\ error' = [error EXCEPT ![p] = "send"]
               /\ UNCHANGED sent
    /\ calls' = Called(p, "send")
    /\ UNCHANGED <<file, key, oracle, aosp, blog, changes, blog_posts, state, fresh_changes,
                   fresh_blog, ai, posts, fileAtStart, written, evicted,
                   prev, runsLeft>>

\* the external scheduler starts the program again
Restart ==
    /\ pc[1] \in {"done", "aborted"}
    /\ runsLeft > 0
    /\ runsLeft' = runsLeft - 1
    /\ prev' = [ok |-> pc[1] = "done", changes |-> changes[1],
                blog_posts |-> blog_posts[1], written |-> written[1]]
    /\ pc' = [pc EXCEPT ![1] = "start"]
    /\ changes' = [changes EXCEPT ![1] = <<>>]
    /\ blog_posts' = [blog_posts EXCEPT ![1] = <<>>]
    /\ state' = [state EXCEPT ![1] = Dict(<<>>)]
    /\ fresh_changes' = [fresh_changes EXCEPT ![1] = <<>>]
    /\ fresh_blog' = [fresh_blog EXCEPT ![1] = <<>>]
    /\ ai' = [ai EXCEPT ![1] = NoCall]
    /\ posts' = [posts EXCEPT ![1] = PyNone]
    /\ sent' = [sent EXCEPT ![1] = <<>>]
    /\ calls' = [calls EXCEPT ![1] = NoCalls]
    /\ written' = [written EXCEPT ![1] = {}]
    /\ error' = [error EXCEPT ![1] = ""]
    /\ fileAtStart' = [fileAtStart EXCEPT ![1] = file]
    /\ UNCHANGED <<file, key, oracle, aosp, blog, evicted>>

Step(p) ==
    \/ Fetch(p)
    \/ FetchFails(p)
    \/ Load(p)
    \/ NothingNew(p)
    \/ Generate(p)
    \/ Save(p)
    \/ Send(p)

Next == Step(1) \/ Restart

NextConc == \E p \in Procs : Step(p)

Spec == Init /\ [][Next]_vars

SpecConc == InitConc /\ [][NextConc]_vars

\* one invocation on an empty state store, with every outcome of the AI step
InitGen ==
    /\ file = Absent
    /\ key \in BOOLEAN
    /\ oracle = AIOutcomes
    /\ aosp = 1..MaxGenChanges
    /\ blog = MaxGenBlog
    /\ pc = [p \in Procs |-> IF p = 1 THEN "start" ELSE "idle"]
    /\ runsLeft = 0
    /\ Locals

NextGen == Step(1)

SpecGen == InitGen /\ [][NextGen]_vars

(***************************************************************************)
(* Properties.                                                             *)
(***************************************************************************)
\* the run of p has loaded the state and classified the fetched records
Filtered(p) == calls[p].load = 1 /\ error[p] # "state"

\* the identifiers of the records the run of p classified as fresh
FreshIds(p) ==
    {change_id(fresh_changes[p][i]) : i \in 1..Len(fresh_changes[p])}
        \cup {blog_id(fresh_blog[p][i]) : i \in 1..Len(fresh_blog[p])}

\* the identifiers of the records the run of p fetched
FetchedIds(p) ==
    {change_id(changes[p][i]) : i \in 1..Len(changes[p])}
        \cup {blog_id(blog_posts[p][i]) : i \in 1..Len(blog_posts[p])}

\* the list of identifiers state.json held when the run of p began
StartList(p) == IF fileAtStart[p].kind = "dict" THEN fileAtStart[p].seen_ids ELSE <<>>

\* the message the "nothing new" branch sends
NothingNewMessage ==
    [header |-> "Android/AOSP updates:",
     body |-> <<[n |-> 1,
                 p |-> PyStr(<<"No new items. Everything already processed.">>)]>>,
     footer |-> "(Ready to post!)"]

\* C1 (as claimed): an identifier that an earlier run added to the persisted
\* Seen State (it is in state.json when the run begins, or was and has been
\* evicted by the cap) is never classified as fresh by a later run.
C1_NeverFreshAgain ==
    pc[1] = "loaded" =>
        \A x \in FreshIds(1) : ~InSeq(x, StartList(1)) /\ x \notin evicted

\* C1 (amended): an identifier that is in the persisted Seen State when a run
\* begins is never classified as fresh by that run; in particular an identifier
\* added by a run is never fresh in the next run.
C1_SeenNeverFresh ==
    Filtered(1) =>
        /\ \A x \in FreshIds(1) : ~InSeq(x, StartList(1))
        /\ (prev.ok => \A x \in prev.written : x \notin FreshIds(1))

\* C1 witness: the run has filtered a feed holding a record that the previous
\* run added to the Seen State.
C1_Witness ==
    /\ pc[1] = "loaded"
    /\ prev.ok
    /\ \E x \in prev.written : x \in FetchedIds(1)

\* C2 (as claimed): state.json is written only after the notification has been
\* delivered, and a run that aborts leaves state.json as it was when the run
\* began.
C2_WriteAfterDelivery ==
    \A p \in Procs :
        /\ calls[p].save > 0 => Len(sent[p]) > 0
        /\ pc[p] = "aborted" => file = fileAtStart[p]

\* C3: after a successful run with fresh records, state.json holds the list it
\* held before followed by the identifiers of the fresh changes and then of the
\* fresh blog entries, cut to its last 500 elements: at most 500 entries, every
\* fresh identifier present, and an old identifier missing only if the cap
\* pushed it out.
C3_StateAfterRun ==
    (pc[1] = "done" /\ calls[1].save = 1) =>
        LET S == StartList(1)
            F == [i \in 1..Len(fresh_changes[1]) |-> change_id(fresh_changes[1][i])]
                     \o [i \in 1..Len(fresh_blog[1]) |-> blog_id(fresh_blog[1][i])]
            all == S \o F
            L == file.seen_ids
            cut == Len(all) - Len(L)
        IN  /\ file.kind = "dict"
            /\ Len(L) = Min(Len(all), Cap)
            /\ Len(L) <= Cap
            /\ \A i \in 1..Len(L) : L[i] = all[cut + i]
            /\ \A i \in 1..Len(F) : InSeq(F[i], L)
            /\ \A i \in 1..Len(S) : ~InSeq(S[i], L) => i <= cut

\* C3 witness: a successful run with fresh records on a state store that was
\* at the cap, so that old identifiers were pushed out.
C3_Witness ==
    /\ pc[1] = "done"
    /\ calls[1].save = 1
    /\ Len(StartList(1)) = Cap
    /\ ~InSeq(StartList(1)[1], file.seen_ids)

\* every fetched record has its identifier in the Seen State the run loaded
AllSeen(p) == \A x \in FetchedIds(p) : InSeq(x, StartList(p))

\* C4: when every fetched record is already in the loaded Seen State, the run
\* sends exactly one "nothing new" message, never calls generate_posts and
\* never calls save_state, so state.json is unchanged.
C4_NothingNewFrame ==
    (Filtered(1) /\ AllSeen(1)) =>
        /\ calls[1].gen = 0
        /\ calls[1].save = 0
        /\ file = fileAtStart[1]
        /\ calls[1].send <= 1
        /\ pc[1] = "loaded" => calls[1].send = 0
        /\ pc[1] = "done" => calls[1].send = 1 /\ sent[1] = <<NothingNewMessage>>
        /\ pc[1] # "done" => sent[1] = <<>>
        /\ pc[1] \in {"loaded", "done", "aborted"}

\* C4 witness: a run that fetched records, all of them seen, has finished.
C4_Witness ==
    /\ pc[1] = "done"
    /\ FetchedIds(1) # {}
    /\ AllSeen(1)
    /\ Len(sent[1]) = 1

\* the run follows a successful run and fetched exactly the same records
SameAsPrev == prev.ok /\ changes[1] = prev.changes /\ blog_posts[1] = prev.blog_posts

\* C5: when a run completes and the next run fetches exactly the same records,
\* the second run finds nothing fresh, sends the "nothing new" message and
\* leaves state.json as the first run left it.
C5_Idempotent ==
    (SameAsPrev /\ calls[1].load = 1) =>
        /\ error[1] # "state"
        /\ fresh_changes[1] = <<>>
        /\ fresh_blog[1] = <<>>
        /\ calls[1].gen = 0
        /\ calls[1].save = 0
        /\ file = fileAtStart[1]
        /\ pc[1] = "done" => sent[1] = <<NothingNewMessage>>

\* the deterministic fallback list for the records the run of p passed in
FallbackOf(p) ==
    LET drafts == [i \in 1..Len(fresh_changes[p]) |-> ChangeDraft(fresh_changes[p][i])]
                      \o [i \in 1..Len(fresh_blog[p]) |-> BlogDraft(fresh_blog[p][i])]
    IN  PyList(SubSeq(drafts, 1, Min(Len(drafts), FallbackLimit)))

\* the AI step raised, or was not made for want of a credential
AIFailed(p) == ~key \/ ai[p].step # "text"

\* C6 (as claimed): whatever the AI step does, generate_posts returns a
\* non-empty list of drafts when it was passed a fresh record, and exactly the
\* fallback list when the AI step raised.
C6_AlwaysDraftList ==
    calls[1].gen = 1 =>
        /\ posts[1].t = "list"
        /\ Len(posts[1].v) > 0
        /\ AIFailed(1) => posts[1] = FallbackOf(1)

\* the line with its leading decoration and surrounding whitespace removed
Undecorated(line) == rstrip(lstrip(line, Decoration \cup Whitespace), Whitespace)

\* the drafts the line-based heuristic is claimed to give
RECURSIVE ClaimedDrafts(_)
ClaimedDrafts(lines) ==
    IF lines = <<>> THEN <<>>
    ELSE (IF Undecorated(Head(lines)) = <<>> THEN <<>>
          ELSE <<PyStr(Undecorated(Head(lines)))>>) \o ClaimedDrafts(Tail(lines))

\* C8 (as claimed): when structured decoding fails and a line of the reply is
\* not blank, the drafts returned are the non-empty results of removing each
\* line's leading decoration and surrounding whitespace, the text otherwise
\* unchanged.
C8_HeuristicDrafts ==
    (/\ calls[1].gen = 1
     /\ key
     /\ ai[1].step = "text"
     /\ ~Decoded(ai[1].text).ok
     /\ \E c \in Range(ai[1].text) : c \notin Whitespace) =>
        /\ posts[1].t = "list"
        /\ posts[1].v = ClaimedDrafts(split(ai[1].text, NL))
        /\ \A i \in 1..Len(posts[1].v) : posts[1].v[i].v # <<>>

\* C7 (as claimed): whatever state.json holds, the run goes on with the
\* persisted identifier list or the empty one; the state file never aborts it.
C7_LoadNeverAborts ==
    \A p \in Procs :
        /\ error[p] # "state"
        /\ pc[p] = "loaded" => SeenList(state[p]) \in {StartList(p), <<>>}

\* the drafts of the message the run of p delivered
Surfaced(p) == {sent[p][1].body[i].p : i \in 1..Len(sent[p][1].body)}

\* C10 (as claimed): in fallback mode, every record whose identifier the run
\* adds to the Seen State has its fallback draft in the message the run sends.
C10_SeenImpliesSurfaced ==
    \A p \in Procs :
        (/\ pc[p] = "done"
         /\ calls[p].save = 1
         /\ AIFailed(p)
         /\ Len(fresh_changes[p]) + Len(fresh_blog[p]) \in 1..(2 * FetchLimit)) =>
            /\ \A i \in 1..Len(fresh_changes[p]) :
                  change_id(fresh_changes[p][i]) \in written[p]
                      => ChangeDraft(fresh_changes[p][i]) \in Surfaced(p)
            /\ \A i \in 1..Len(fresh_blog[p]) :
                  blog_id(fresh_blog[p][i]) \in written[p]
                      => BlogDraft(fresh_blog[p][i]) \in Surfaced(p)

\* each invocation reads state.json once and writes it at most once
ReadOnceWriteOnce == \A p \in Procs : calls[p].load <= 1 /\ calls[p].save <= 1

\* a write stores the list the writer loaded followed by the writer's own
\* identifiers, cut to the cap, whatever state.json holds at that moment
OverwriteStep ==
    \A p \in Procs :
        calls'[p].save = calls[p].save + 1 =>
            LET mine == SeenList(state[p])
                           \o [i \in 1..Len(fresh_changes[p]) |->
                                  change_id(fresh_changes[p][i])]
                           \o [i \in 1..Len(fresh_blog[p]) |-> blog_id(fresh_blog[p][i])]
                L == file'.seen_ids
            IN  /\ Len(L) = Min(Len(mine), Cap)
                /\ \A i \in 1..Len(L) : L[i] = mine[Len(mine) - Len(L) + i]

\* C9: each invocation reads state.json once and writes it at most once, and a
\* write replaces the file by what the writer loaded plus its own identifiers,
\* so that of two overlapping invocations the later write overwrites the
\* earlier one.
C9_BlindOverwrite == []ReadOnceWriteOnce /\ [][OverwriteStep]_vars

\* C9 witness: both invocations have finished and an identifier that one of
\* them wrote to state.json is absent from it.
C9_LostUpdate ==
    /\ \A p \in Procs : pc[p] = "done"
    /\ \E p \in Procs : \E x \in written[p] : ~InSeq(x, file.seen_ids)

====
